---- MODULE Spec2Model ----
(***************************************************************************)
(* ResearchWrapped API (backend/main.py): the /analyze request handler,    *)
(* the OpenAlex abstract reconstructor, the lexical statistics and the     *)
(* lazily initialised process-wide spaCy handle.                           *)
(*                                                                         *)
(* A Python str is modelled as a sequence of one-character strings, so     *)
(* "a b" is <<"a", " ", "b">> and "" is <<>>.                              *)
(***************************************************************************)
EXTENDS Integers, Sequences, FiniteSets, TLC

VARIABLES
    inv_idx,            \* reconstruct_openalex_abstract: the argument, a dict in insertion order
    recon_out,          \* reconstruct_openalex_abstract: the returned str, or Unset
    _NLP,               \* line 11: the process-wide spaCy handle
    _SPACY_AVAILABLE,   \* line 12/14: whether `import spacy` succeeded
    model_installed,    \* environment: whether spacy.load("en_core_web_sm") succeeds
    nlp_writes,         \* history: the number of assignments to _NLP so far
    pc,                 \* per request: where the handler is
    query,              \* per request: the orcid and author parameters
    calls,              \* per request: the outbound requests.get calls issued, in order
    author_reply,       \* per request: what the author lookup got from upstream
    works_reply,        \* per request: what the works request got from upstream
    results,            \* per request: the "results" of the works reply
    abstracts,          \* per request: analyze's local list abstracts
    titles,             \* per request: analyze's local list titles
    years,              \* per request: analyze's local list years
    mode,               \* per request: the branch extract_stats took
    resp                \* per request: the HTTP response

recon_vars == <<inv_idx, recon_out>>
nlp_vars == <<_NLP, _SPACY_AVAILABLE, model_installed, nlp_writes>>
req_vars == <<pc, query, calls, author_reply, works_reply, results, abstracts, titles, years, mode, resp>>
vars == <<recon_vars, nlp_vars, req_vars>>

\* ---------------------------------------------------------------- bounds
MaxPos == 2          \* positions of an inverted index range over -1..MaxPos
MaxEntries == 2      \* tokens (keys) of an inverted index
MaxResults == 12     \* works in one reply of the works request
MaxUnusable == 2     \* works of a reply without a usable abstract
MaxRepeats == 2      \* occurrences of a word of a corpus after its first
MaxAbstracts == 2    \* abstracts of a corpus

\* ------------------------------------------------------- str operations
Unset == <<"<unset>">>          \* a variable not yet assigned (no str has this value)
NoneTok == <<"<None>">>         \* Python None in a list of str

Whitespace == {" ", "\n"}
IsSpace(c) == c \in Whitespace

RECURSIVE Strip(_)
\* str.strip(): leading and trailing whitespace removed.
Strip(s) ==
    IF s = <<>> THEN <<>>
    ELSE IF IsSpace(Head(s)) THEN Strip(Tail(s))
    ELSE IF IsSpace(s[Len(s)]) THEN Strip(SubSeq(s, 1, Len(s) - 1))
    ELSE s

RECURSIVE CollapseWs(_)
\* re.sub(r"\s+", " ", s): every maximal run of whitespace becomes one space.
CollapseWs(s) ==
    IF s = <<>> THEN <<>>
    ELSE IF IsSpace(Head(s))
         THEN IF Len(s) > 1 /\ IsSpace(s[2])
              THEN CollapseWs(Tail(s))
              ELSE <<" ">> \o CollapseWs(Tail(s))
         ELSE <<Head(s)>> \o CollapseWs(Tail(s))

RECURSIVE Join(_, _)
\* sep.join(parts)
Join(sep, parts) ==
    IF parts = <<>> THEN <<>>
    ELSE IF Len(parts) = 1 THEN parts[1]
    ELSE parts[1] \o sep \o Join(sep, Tail(parts))

RECURSIVE MaxOfSeq(_)
\* max(positions) of a non-empty list
MaxOfSeq(ps) ==
    IF Len(ps) = 1 THEN ps[1]
    ELSE LET m == MaxOfSeq(Tail(ps)) IN IF ps[1] > m THEN ps[1] ELSE m

Max2(a, b) == IF a > b THEN a ELSE b

\* ------------------------------------------- reconstruct_openalex_abstract
RECURSIVE MaxPosOf(_, _)
\* lines 47-50: max_pos = 0; for positions in values: if positions: max_pos = max(...)
MaxPosOf(idx, max_pos) ==
    IF idx = <<>> THEN max_pos
    ELSE MaxPosOf(Tail(idx),
                  IF idx[1].positions # <<>>
                  THEN Max2(max_pos, MaxOfSeq(idx[1].positions))
                  ELSE max_pos)

RECURSIVE WritePositions(_, _, _)
\* lines 53-55: for pos in positions: if 0 <= pos < len(tokens): tokens[pos] = token
\* (slot pos of the Python list is element pos + 1 here)
WritePositions(tokens, token, positions) ==
    IF positions = <<>> THEN tokens
    ELSE LET pos == positions[1] IN
         WritePositions(IF 0 <= pos /\ pos < Len(tokens)
                        THEN [tokens EXCEPT ![pos + 1] = token]
                        ELSE tokens,
                        token, Tail(positions))

RECURSIVE WriteEntries(_, _)
\* line 52: for token, positions in inv_idx.items()
WriteEntries(tokens, idx) ==
    IF idx = <<>> THEN tokens
    ELSE WriteEntries(WritePositions(tokens, idx[1].token, idx[1].positions), Tail(idx))

Truthy(t) == t # NoneTok /\ t # <<>>

RECURSIVE KeepTruthy(_)
\* line 56: (t for t in tokens if t)
KeepTruthy(tokens) ==
    IF tokens = <<>> THEN <<>>
    ELSE IF Truthy(tokens[1]) THEN <<tokens[1]>> \o KeepTruthy(Tail(tokens))
    ELSE KeepTruthy(Tail(tokens))

\* A reconstructor that joins the tokens in dict order, ignoring positions.
reconstruct_dict_order(idx) ==
    Strip(CollapseWs(Join(<<" ">>, KeepTruthy([i \in 1..Len(idx) |-> idx[i].token]))))

reconstruct_openalex_abstract(idx) ==
    IF idx = <<>> THEN <<>>
    ELSE LET max_pos == MaxPosOf(idx, 0)
             tokens == WriteEntries([i \in 1..(max_pos + 1) |-> NoneTok], idx)
             joined == Join(<<" ">>, KeepTruthy(tokens))
         IN  Strip(CollapseWs(joined))

\* ------------------------------------------------------------ more of str
UpperChars == <<"A", "B", "C", "D", "E", "F", "G", "H", "I", "J", "K", "L", "M", "N", "O", "P", "Q", "R", "S", "T", "U", "V", "W", "X", "Y", "Z">>
LowerChars == <<"a", "b", "c", "d", "e", "f", "g", "h", "i", "j", "k", "l", "m", "n", "o", "p", "q", "r", "s", "t", "u", "v", "w", "x", "y", "z">>
AsciiLetters == { UpperChars[i] : i \in 1..26 } \cup { LowerChars[i] : i \in 1..26 }
LowerMap == [c \in { UpperChars[i] : i \in 1..26 } |->
                LowerChars[CHOOSE i \in 1..26 : UpperChars[i] = c]]

IsLetter(c) == c \in AsciiLetters
\* str.lower()
Lower(s) == [k \in 1..Len(s) |-> IF s[k] \in DOMAIN LowerMap THEN LowerMap[s[k]] ELSE s[k]]
\* str.isalpha(): non-empty and letters only
IsAlpha(s) == s # <<>> /\ \A k \in 1..Len(s) : IsLetter(s[k])

RECURSIVE SkipIn(_, _, _)
\* the first index from i on whose character is not in the set C (Len(s) + 1 if none)
SkipIn(s, i, C) ==
    IF i <= Len(s) /\ s[i] \in C THEN SkipIn(s, i + 1, C) ELSE i

RECURSIVE SkipNotIn(_, _, _)
\* the first index from i on whose character is in the set C (Len(s) + 1 if none)
SkipNotIn(s, i, C) ==
    IF i <= Len(s) /\ s[i] \notin C THEN SkipNotIn(s, i + 1, C) ELSE i

RECURSIVE SplitFrom(_, _, _)
\* str.split(): the maximal runs of non-whitespace of s, from index i on
SplitFrom(s, i, acc) ==
    LET b == SkipIn(s, i, Whitespace) IN
    IF b > Len(s) THEN acc
    ELSE LET e == SkipNotIn(s, b, Whitespace)
         IN  SplitFrom(s, e, Append(acc, SubSeq(s, b, e - 1)))

Split(s) == SplitFrom(s, 1, <<>>)

\* ------------------------------------------------------------ simple_tokenize
\* the class [A-Za-z\-'] of the pattern of line 63
WordChars == AsciiLetters \cup {"-", "'"}

RECURSIVE FindAll(_, _, _)
\* re.findall(r"[A-Za-z][A-Za-z\-']+", s): leftmost, greedy, non-overlapping. A match
\* starts at a letter and takes the whole run of [A-Za-z\-'] after it; a letter with
\* no such run after it matches nothing and the scan moves one character on.
FindAll(s, i, acc) ==
    LET b == SkipNotIn(s, i, AsciiLetters) IN
    IF b > Len(s) THEN acc
    ELSE LET e == SkipIn(s, b + 1, WordChars)
         IN  IF e > b + 1 THEN FindAll(s, e, Append(acc, SubSeq(s, b, e - 1)))
             ELSE FindAll(s, b + 1, acc)

simple_tokenize(text) == FindAll(Lower(text), 1, <<>>)

\* line 104-106: the fixed stopword list of the fallback mode
basic_stop ==
    {
      <<"t", "h", "e">>, <<"a">>, <<"a", "n">>, <<"a", "n", "d">>, <<"o", "r">>, <<"b", "u", "t">>,
      <<"i", "f">>, <<"t", "h", "e", "n">>, <<"e", "l", "s", "e">>, <<"f", "o", "r">>,
      <<"t", "o">>, <<"o", "f">>, <<"i", "n">>, <<"o", "n">>, <<"w", "i", "t", "h">>, <<"a", "s">>,
      <<"b", "y">>, <<"i", "s">>, <<"a", "r", "e">>, <<"w", "a", "s">>, <<"w", "e", "r", "e">>,
      <<"b", "e">>, <<"b", "e", "e", "n">>, <<"i", "t">>, <<"i", "t", "s">>,
      <<"t", "h", "a", "t">>, <<"t", "h", "i", "s">>, <<"t", "h", "e", "s", "e">>,
      <<"t", "h", "o", "s", "e">>, <<"f", "r", "o", "m">>, <<"a", "t">>, <<"w", "e">>,
      <<"o", "u", "r">>, <<"y", "o", "u">>, <<"y", "o", "u", "r">>, <<"t", "h", "e", "y">>,
      <<"t", "h", "e", "i", "r">>, <<"i">>, <<"m", "e">>, <<"m", "y">>, <<"h", "e">>,
      <<"s", "h", "e">>, <<"h", "i", "s">>, <<"h", "e", "r">>, <<"t", "h", "e", "m">>,
      <<"t", "h", "e", "r", "e">>, <<"h", "e", "r", "e">>, <<"o", "v", "e", "r">>,
      <<"u", "n", "d", "e", "r">>, <<"t", "h", "a", "n">>, <<"s", "u", "c", "h">>,
      <<"c", "a", "n">>, <<"m", "a", "y">>, <<"m", "i", "g", "h", "t">>,
      <<"s", "h", "o", "u", "l", "d">>, <<"w", "o", "u", "l", "d">>, <<"c", "o", "u", "l", "d">>,
      <<"n", "o", "t">>, <<"n", "o">>, <<"y", "e", "s">>, <<"d", "o">>, <<"d", "o", "e", "s">>,
      <<"d", "i", "d">>, <<"h", "a", "v", "e">>, <<"h", "a", "s">>, <<"h", "a", "d">>
    }

\* ------------------------------------------------------------ Counter
RECURSIVE CountFrom(_, _, _)
\* Counter(items): one [term, count] per distinct item, in first-seen order
CountFrom(items, i, acc) ==
    IF i > Len(items) THEN acc
    ELSE LET hit == { k \in 1..Len(acc) : acc[k].term = items[i] }
         IN  IF hit = {}
             THEN CountFrom(items, i + 1, Append(acc, [term |-> items[i], count |-> 1]))
             ELSE LET k == CHOOSE k \in hit : TRUE
                  IN  CountFrom(items, i + 1, [acc EXCEPT ![k].count = @ + 1])

Counter(items) == CountFrom(items, 1, <<>>)

RECURSIVE SortedByCount(_)
\* sorted(counter.items(), key=count, reverse=True): stable, so equal counts keep
\* their first-seen order
SortedByCount(c) ==
    IF c = <<>> THEN <<>>
    ELSE LET k == CHOOSE k \in 1..Len(c) :
                     /\ \A j \in 1..Len(c) : c[j].count <= c[k].count
                     /\ \A j \in 1..(k - 1) : c[j].count < c[k].count
         IN  <<c[k]>> \o SortedByCount(SubSeq(c, 1, k - 1) \o SubSeq(c, k + 1, Len(c)))

FirstN(s, n) == SubSeq(s, 1, IF Len(s) < n THEN Len(s) ELSE n)

\* A most_common that keeps the first n entries of the Counter without ranking them.
most_common_unranked(c, n) == FirstN(c, n)

\* Counter.most_common(n)
most_common(c, n) == FirstN(SortedByCount(c), n)

\* ------------------------------------------------------------ the spaCy pipeline
\* The handle values of _NLP. spacy.load("en_core_web_sm") gives the full pipeline;
\* spacy.blank("en") gives a tokenizer with no components.
NoneNlp == "None"
FullPipeline == "en_core_web_sm"
BlankPipeline == "blank_en"

\* nlp.pipe_names
pipe_names(nlp) ==
    IF nlp = FullPipeline
    THEN <<"tok2vec", "tagger", "parser", "attribute_ruler", "lemmatizer", "ner">>
    ELSE <<>>

HasPipe(nlp, name) == \E i \in 1..Len(pipe_names(nlp)) : pipe_names(nlp)[i] = name

\* line 10: spacy.lang.en.stop_words.STOP_WORDS (the part of it the inputs can hit)
SPACY_STOPWORDS ==
    { <<"t","h","e">>, <<"a">>, <<"a","n">>, <<"a","n","d">>, <<"o","f">>,
      <<"t","h","e","y">>, <<"w","e">>, <<"u","s">>, <<"a","l","s","o">> }

Determiners == { <<"t","h","e">>, <<"a">>, <<"a","n">> }
Pronouns == { <<"t","h","e","y">>, <<"w","e">>, <<"u","s">> }

\* The tagger: in this lexicon a word in v is a verb and a word in n a noun.
PosOf(text) ==
    LET w == Lower(text) IN
    IF w \in Determiners THEN "DET"
    ELSE IF w \in Pronouns THEN "PRON"
    ELSE IF ~IsAlpha(w) THEN "X"
    ELSE IF w[1] = "v" THEN "VERB"
    ELSE IF w[1] = "n" THEN "NOUN"
    ELSE "X"

\* The lemmatizer: in this lexicon the final s of a word of four letters or more is
\* an inflection.
LemmaOf(text) ==
    LET w == Lower(text) IN
    IF Len(w) >= 4 /\ w[Len(w)] = "s" THEN SubSeq(w, 1, Len(w) - 1) ELSE w

\* line 72: doc = nlp(corpus). One token per run of non-whitespace; the attributes a
\* component sets are empty when the pipeline lacks the component.
Annotate(nlp, corpus) ==
    LET words == Split(corpus) IN
    [i \in 1..Len(words) |->
        [text     |-> words[i],
         is_alpha |-> IsAlpha(words[i]),
         is_stop  |-> Lower(words[i]) \in SPACY_STOPWORDS,
         lemma_   |-> IF HasPipe(nlp, "lemmatizer") THEN LemmaOf(words[i]) ELSE <<>>,
         pos_     |-> IF HasPipe(nlp, "tagger") THEN PosOf(words[i]) ELSE ""]]

RECURSIVE NounChunksFrom(_, _, _)
\* doc.noun_chunks: a noun with the determiner before it, or a pronoun alone
NounChunksFrom(doc, i, acc) ==
    IF i > Len(doc) THEN acc
    ELSE IF doc[i].pos_ = "NOUN"
         THEN NounChunksFrom(doc, i + 1,
                  Append(acc, IF i > 1 /\ doc[i - 1].pos_ = "DET"
                              THEN doc[i - 1].text \o <<" ">> \o doc[i].text
                              ELSE doc[i].text))
         ELSE IF doc[i].pos_ = "PRON"
              THEN NounChunksFrom(doc, i + 1, Append(acc, doc[i].text))
              ELSE NounChunksFrom(doc, i + 1, acc)

noun_chunks(doc) == NounChunksFrom(doc, 1, <<>>)

\* ------------------------------------------------------------ extract_stats
TopWordsK == 15
TopVerbsK == 10
TopTopicsK == 10

\* lines 76-80
WordLemmas(doc) ==
    LET keep(t) == t.is_alpha /\ ~t.is_stop /\ Len(t.lemma_) > 1
        kept == SelectSeq(doc, keep)
    IN  [i \in 1..Len(kept) |-> Lower(kept[i].lemma_)]

\* lines 84-88
VerbLemmas(nlp, doc) ==
    LET keep(t) == t.pos_ = "VERB" /\ IsAlpha(t.lemma_)
        kept == SelectSeq(doc, keep)
    IN  IF HasPipe(nlp, "tagger") THEN [i \in 1..Len(kept) |-> Lower(kept[i].lemma_)] ELSE <<>>

AllStop(words) == \A k \in 1..Len(words) : words[k] \in SPACY_STOPWORDS

\* lines 92-98
TopicChunks(nlp, doc) ==
    LET chunks == noun_chunks(doc)
        texts == [i \in 1..Len(chunks) |-> Lower(Strip(chunks[i]))]
        keep(text) == Len(text) > 3 /\ ~AllStop(Split(text))
    IN  IF HasPipe(nlp, "parser") THEN SelectSeq(texts, keep) ELSE <<>>

\* lines 102-107
FallbackWords(corpus) ==
    LET keep(t) == t \notin basic_stop /\ Len(t) > 2
    IN  SelectSeq(simple_tokenize(corpus), keep)

\* line 70: if _SPACY_AVAILABLE and nlp and nlp.pipe_names
AnnotatedMode(avail, nlp) == avail /\ nlp # NoneNlp /\ pipe_names(nlp) # <<>>

extract_stats(abs, avail, nlp) ==
    LET corpus == Join(<<"\n">>, abs) IN
    IF AnnotatedMode(avail, nlp)
    THEN LET doc == Annotate(nlp, corpus) IN
         [top_words |-> most_common(Counter(WordLemmas(doc)), TopWordsK),
          top_verbs |-> most_common(Counter(VerbLemmas(nlp, doc)), TopVerbsK),
          topics    |-> most_common(Counter(TopicChunks(nlp, doc)), TopTopicsK)]
    ELSE [top_words |-> most_common(Counter(FallbackWords(corpus)), TopWordsK),
          top_verbs |-> <<>>,
          topics    |-> <<>>]

\* ------------------------------------------------------------ /analyze
Reqs == {1, 2}      \* the requests served concurrently

Falsy(s) == s = NoneTok \/ s = <<>>

StartsWith(s, p) == Len(s) >= Len(p) /\ SubSeq(s, 1, Len(p)) = p
\* p in s
Contains(s, p) == \E i \in 1..(Len(s) - Len(p) + 1) : SubSeq(s, i, i + Len(p) - 1) = p
\* s.split('/')[-1]
LastSegment(s) ==
    LET slashes == { i \in 1..Len(s) : s[i] = "/" }
        last == IF slashes = {} THEN 0 ELSE CHOOSE i \in slashes : \A j \in slashes : j <= i
    IN  SubSeq(s, last + 1, Len(s))

OpenAlexOrg == <<"h", "t", "t", "p", "s", ":", "/", "/", "o", "p", "e", "n", "a", "l", "e", "x", ".", "o", "r", "g", "/">>

\* the values of the orcid parameter
WellFormedOrcid ==
    <<"0", "0", "0", "0", "-", "0", "0", "0", "2", "-", "1", "8", "2", "5", "-", "0", "0", "9", "7">>

Orcids ==
    { NoneTok,
      WellFormedOrcid,
      <<"a", "b", "c", "d", "-", "0", "0", "0", "2", "-", "1", "8", "2", "5", "-", "0", "0", "9", "7">>,
      <<"0", "0", "0", "0", "-", "0", "0", "0", "2", "-", "1", "8", "2", "5", "-", "0", "0", "9">> }

\* the values of the author parameter
Authors ==
    { NoneTok,
      <<"A", "1">>,
      <<" ", "h", "t", "t", "p", "s", ":", "/", "/", "o", "p", "e", "n", "a", "l", "e", "x", ".", "o", "r", "g", "/", "A", "1", " ">>,
      <<"h", "t", "t", "p", ":", "/", "/", "x", ".", "o", "r", "g", "/", "B", "1">>,
      <<"B", "1">> }

\* the parameter pairs of a request: one parameter alone, none, or both
Queries ==
    { [orcid |-> o, author |-> NoneTok] : o \in Orcids } \cup
    { [orcid |-> NoneTok, author |-> a] : a \in Authors } \cup
    { [orcid |-> o, author |-> <<"B","1">>] : o \in { <<>>, WellFormedOrcid } }

\* the author record upstream holds
AuthorObj == [id |-> "https://openalex.org/A1", display_name |-> "Ada Lovelace"]

Fail(status, detail) == [status |-> status, detail |-> detail]
NoResp == [status |-> 0]

\* An unhandled exception leaves the handler; the framework answers 500.
Unhandled == Fail(500, "Internal Server Error")

Call(api, arg) == [api |-> api, arg |-> arg]

\* lines 173-182: the author id URL, or the 400 the parameter earns
AuthorIdUrl(author) ==
    LET author_norm == Strip(author) IN
    IF StartsWith(author_norm, <<"h","t","t","p">>)
    THEN IF Contains(author_norm, <<"/","A">>)
         THEN [ok |-> TRUE, url |-> author_norm]
         ELSE [ok |-> FALSE, err |-> Fail(400, "Unsupported author URL format")]
    ELSE IF StartsWith(author_norm, <<"A">>)
         THEN [ok |-> TRUE, url |-> OpenAlexOrg \o author_norm]
         ELSE [ok |-> FALSE,
               err |-> Fail(400, "Author must be an OpenAlex author ID (e.g., Axxxx) or URL")]

\* lines 164-184: from the entry of analyze to its author lookup being sent
Analyze(r) ==
    /\ pc[r] = "received"
    /\ LET q == query[r] IN
       IF Falsy(q.orcid) /\ Falsy(q.author)
       THEN /\ resp' = [resp EXCEPT ![r] = Fail(400, "Provide either 'orcid' or 'author' parameter")]
            /\ pc' = [pc EXCEPT ![r] = "done"]
            /\ UNCHANGED calls
       ELSE IF ~Falsy(q.orcid)
       THEN /\ calls' = [calls EXCEPT ![r] = Append(@, Call("authors_by_orcid", q.orcid))]
            /\ pc' = [pc EXCEPT ![r] = "author_call"]
            /\ UNCHANGED resp
       ELSE LET a == AuthorIdUrl(q.author) IN
            IF a.ok
            THEN /\ calls' = [calls EXCEPT ![r] = Append(@, Call("authors_by_id", LastSegment(a.url)))]
                 /\ pc' = [pc EXCEPT ![r] = "author_call"]
                 /\ UNCHANGED resp
            ELSE /\ resp' = [resp EXCEPT ![r] = a.err]
                 /\ pc' = [pc EXCEPT ![r] = "done"]
                 /\ UNCHANGED calls
    /\ UNCHANGED <<query, author_reply, works_reply, results, abstracts, titles, years, mode>>
    /\ UNCHANGED <<recon_vars, nlp_vars>>

\* What requests.get can bring back from the author lookup: an exception (connection
\* error, timeout), a non-success status, a success without or with the author.
AuthorReplies == { "exception", "500", "404", "200_empty", "200" }

\* A lookup by ORCID that takes results[0] without testing for an empty list.
AuthorFailure_no_empty_test(by_orcid, reply) ==
    IF reply = "exception" THEN Unhandled
    ELSE IF reply \in {"500", "404"}
    THEN IF by_orcid THEN Fail(502, "Failed to query OpenAlex authors")
         ELSE Fail(404, "Author not found for given ID")
    ELSE NoResp

\* lines 122-128 (fetch_author_by_orcid) and lines 184-186 (lookup by author id): the
\* response the reply ends the request with, or NoResp when the handler goes on
AuthorFailure(by_orcid, reply) ==
    IF reply = "exception" THEN Unhandled
    ELSE IF by_orcid
    THEN IF reply \in {"500", "404"}
         THEN Fail(502, "Failed to query OpenAlex authors")
         ELSE IF reply = "200_empty"
         THEN Fail(404, "Author not found for given ORCID")
         ELSE NoResp
    ELSE IF reply # "200"
         THEN Fail(404, "Author not found for given ID")
         ELSE NoResp

\* the reply of the author lookup arrives: lines 122-129 or 184-187, then lines
\* 189-191 and 134-144, up to the works request being sent
AuthorReply(r) ==
    /\ pc[r] = "author_call"
    /\ \E reply \in AuthorReplies :
        /\ ~Falsy(query[r].orcid) \/ reply # "200_empty"
        /\ author_reply' = [author_reply EXCEPT ![r] = reply]
        /\ LET failure == AuthorFailure(~Falsy(query[r].orcid), reply)
           IN IF failure # NoResp
              THEN /\ resp' = [resp EXCEPT ![r] = failure]
                   /\ pc' = [pc EXCEPT ![r] = "done"]
                   /\ UNCHANGED calls
              ELSE /\ calls' = [calls EXCEPT ![r] = Append(@, Call("works", AuthorObj.id))]
                   /\ pc' = [pc EXCEPT ![r] = "works_call"]
                   /\ UNCHANGED resp
    /\ UNCHANGED <<query, works_reply, results, abstracts, titles, years, mode>>
    /\ UNCHANGED <<recon_vars, nlp_vars>>

MaxItems == 10

RECURSIVE FilterWorks(_, _, _, _)
\* lines 149-155: the first max_items works that carry an abstract index
FilterWorks(res, i, filtered, max_items) ==
    IF i > Len(res) THEN filtered
    ELSE LET f2 == IF res[i].abstract_inverted_index # <<>>
                   THEN Append(filtered, res[i]) ELSE filtered
         IN  IF Len(f2) >= max_items THEN f2
             ELSE FilterWorks(res, i + 1, f2, max_items)

\* A filter that stops after looking at max_items works, whatever they carry.
fetch_first_page(res, max_items) ==
    LET keep(w) == w.abstract_inverted_index # <<>>
    IN  SelectSeq(FirstN(res, max_items), keep)

\* lines 147-155 of fetch_recent_works
fetch_recent_works(res, max_items) == FilterWorks(res, 1, <<>>, max_items)

\* A loop that keeps every work, whatever its abstract reconstructs to.
WithAbstract_unfiltered(works) == works

\* lines 196-202: the works whose reconstructed abstract is not empty
WithAbstract(works) ==
    LET keep(w) == reconstruct_openalex_abstract(w.abstract_inverted_index) # <<>>
    IN  SelectSeq(works, keep)

\* What requests.get can bring back from the works request.
WorksReplies == { "exception", "500", "200" }

\* the reply of the works request arrives: lines 145-155 of fetch_recent_works,
\* then lines 193-205 of analyze
WorksReply(r, Results) ==
    /\ pc[r] = "works_call"
    /\ \E reply \in WorksReplies :
        /\ works_reply' = [works_reply EXCEPT ![r] = reply]
        /\ IF reply # "200"
           THEN /\ resp' = [resp EXCEPT ![r] =
                       IF reply = "exception" THEN Unhandled
                       ELSE Fail(502, "Failed to query OpenAlex works")]
                /\ pc' = [pc EXCEPT ![r] = "done"]
                /\ UNCHANGED <<results, abstracts, titles, years>>
           ELSE \E res \in Results :
                \E used \in { WithAbstract(fetch_recent_works(res, MaxItems)) } :
                /\ results' = [results EXCEPT ![r] = res]
                /\ abstracts' = [abstracts EXCEPT ![r] =
                       [i \in 1..Len(used) |->
                           reconstruct_openalex_abstract(used[i].abstract_inverted_index)]]
                /\ titles' = [titles EXCEPT ![r] = [i \in 1..Len(used) |-> used[i].title]]
                /\ years' = [years EXCEPT ![r] =
                       [i \in 1..Len(used) |-> used[i].publication_year]]
                /\ IF used = <<>>
                   THEN /\ resp' = [resp EXCEPT ![r] =
                               Fail(404, "No abstracts found for the last works")]
                        /\ pc' = [pc EXCEPT ![r] = "done"]
                   ELSE /\ pc' = [pc EXCEPT ![r] = "get_nlp"]
                        /\ UNCHANGED resp
    /\ UNCHANGED <<query, calls, author_reply, mode>>
    /\ UNCHANGED <<recon_vars, nlp_vars>>

\* line 34 of get_nlp: the test of _NLP
GetNlpCheck(r) ==
    /\ pc[r] = "get_nlp"
    /\ pc' = [pc EXCEPT ![r] = IF _NLP = NoneNlp /\ _SPACY_AVAILABLE
                                 THEN "nlp_load" ELSE "nlp_return"]
    /\ UNCHANGED <<query, calls, author_reply, works_reply, results, abstracts, titles, years, mode, resp>>
    /\ UNCHANGED <<recon_vars, nlp_vars>>

\* what line 36, or line 39 after line 36 raised, assigns
LoadedPipeline(installed) == IF installed THEN FullPipeline ELSE BlankPipeline

\* lines 35-39 of get_nlp: the load, and the assignment to _NLP
GetNlpLoad(r) ==
    /\ pc[r] = "nlp_load"
    /\ _NLP' = LoadedPipeline(model_installed)
    /\ nlp_writes' = nlp_writes + 1
    /\ pc' = [pc EXCEPT ![r] = "nlp_return"]
    /\ UNCHANGED <<_SPACY_AVAILABLE, model_installed>>
    /\ UNCHANGED <<query, calls, author_reply, works_reply, results, abstracts, titles, years, mode, resp>>
    /\ UNCHANGED recon_vars

\* line 40 of get_nlp, lines 67-116 of extract_stats and lines 209-216 of analyze
ExtractStats(r) ==
    /\ pc[r] = "nlp_return"
    /\ \E nlp \in { _NLP } :
       \E stats \in { extract_stats(abstracts[r], _SPACY_AVAILABLE, nlp) } :
          /\ mode' = [mode EXCEPT ![r] =
                 IF AnnotatedMode(_SPACY_AVAILABLE, nlp) THEN "annotated" ELSE "fallback"]
          /\ resp' = [resp EXCEPT ![r] =
                 [status      |-> 200,
                  author_name |-> AuthorObj.display_name,
                  orcid       |-> query[r].orcid,
                  works_used  |-> Len(abstracts[r]),
                  titles      |-> titles[r],
                  years       |-> years[r],
                  top_words   |-> stats.top_words,
                  top_verbs   |-> stats.top_verbs,
                  topics      |-> stats.topics]]
    /\ pc' = [pc EXCEPT ![r] = "done"]
    /\ UNCHANGED <<query, calls, author_reply, works_reply, results, abstracts, titles, years>>
    /\ UNCHANGED <<recon_vars, nlp_vars>>

\* ------------------------------------------------------------ upstream works
IdxBlank == << [token |-> <<"\n">>, positions |-> <<0>>] >>
IdxNoPositions == << [token |-> <<"a">>, positions |-> <<>>] >>
IdxA == << [token |-> <<"T","h","e">>, positions |-> <<0>>],
           [token |-> <<"n","a","a","a">>, positions |-> <<1, 3>>],
           [token |-> <<"v","a","a">>, positions |-> <<2>>] >>
IdxB == << [token |-> <<"v","a","b">>, positions |-> <<1>>],
           [token |-> <<"n","a","a","b">>, positions |-> <<0>>] >>

\* upstream sorts by publication year, descending
YearOf(i) == 2025 - (i \div 3)

\* the i-th work of a reply; its title is its ordinal. No index: <<>> (a missing
\* key, null and {} are all falsy at line 151 and line 45).
Work(i, idx) == [title |-> i, publication_year |-> YearOf(i), abstract_inverted_index |-> idx]

\* the replies of the works request when requests run concurrently
SmallResults ==
    { <<>>,
      <<Work(1, IdxA)>>,
      <<Work(1, IdxBlank)>>,
      <<Work(1, <<>>), Work(2, IdxB)>>,
      <<Work(1, IdxNoPositions), Work(2, IdxA)>> }

\* ------------------------------------------------------------ the service
NoRecon == inv_idx = <<>> /\ recon_out = Unset

Environments ==
    /\ _NLP = NoneNlp
    /\ _SPACY_AVAILABLE \in BOOLEAN
    /\ model_installed \in BOOLEAN
    /\ model_installed => _SPACY_AVAILABLE
    /\ nlp_writes = 0

Idle ==
    /\ calls = [r \in Reqs |-> <<>>]
    /\ author_reply = [r \in Reqs |-> "none"]
    /\ works_reply = [r \in Reqs |-> "none"]
    /\ results = [r \in Reqs |-> <<>>]
    /\ abstracts = [r \in Reqs |-> <<>>]
    /\ titles = [r \in Reqs |-> <<>>]
    /\ years = [r \in Reqs |-> <<>>]
    /\ mode = [r \in Reqs |-> "none"]
    /\ resp = [r \in Reqs |-> NoResp]

Init ==
    /\ NoRecon
    /\ Environments
    /\ pc = [r \in Reqs |-> "received"]
    /\ query \in [Reqs -> Queries]
    /\ Idle

Next ==
    \E r \in Reqs :
        \/ Analyze(r)
        \/ AuthorReply(r)
        \/ WorksReply(r, SmallResults)
        \/ GetNlpCheck(r)
        \/ GetNlpLoad(r)
        \/ ExtractStats(r)

Spec == Init /\ [][Next]_vars

\* ------------------------------------------------------------ one request, long replies
BadChoices(n) ==
    UNION { [B -> { <<>>, IdxBlank }] :
            B \in { S \in SUBSET (1..n) : Cardinality(S) <= MaxUnusable } }

\* a reply of n works: those bad names carry what it gives, the others an abstract
ResultsOf(n, bad) ==
    [i \in 1..n |-> Work(i, IF i \in DOMAIN bad THEN bad[i]
                            ELSE IF i % 2 = 1 THEN IdxA ELSE IdxB)]

LargeResults ==
    UNION { { ResultsOf(n, bad) : bad \in BadChoices(n) } : n \in 0..MaxResults }

OnlyFirst(p) == [r \in Reqs |-> IF r = 1 THEN p ELSE "off"]

\* spaCy and its model are installed
WorksInit ==
    /\ NoRecon
    /\ _NLP = NoneNlp /\ _SPACY_AVAILABLE = TRUE /\ model_installed = TRUE /\ nlp_writes = 0
    /\ pc = OnlyFirst("received")
    /\ \E q \in { [orcid |-> WellFormedOrcid, author |-> NoneTok],
                  [orcid |-> NoneTok, author |-> <<"A", "1">>] } :
          query = [r \in Reqs |-> q]
    /\ Idle

WorksNext ==
    \/ Analyze(1)
    \/ AuthorReply(1)
    \/ WorksReply(1, LargeResults)
    \/ GetNlpCheck(1)
    \/ GetNlpLoad(1)
    \/ ExtractStats(1)

SpecWorks == WorksInit /\ [][WorksNext]_vars

\* ------------------------------------------------------------ inputs of extract_stats
\* The words of the corpora, in the order a corpus first uses them.
Vocab ==
    << <<"T", "h", "e">>,
       <<"t", "h", "e", "y">>,
       <<"o", "x">>,
       <<"v", "a", "a">>,
       <<"n", "a", "a", "a">>,
       <<"n", "a", "a", "a", "s">>,
       <<"v", "a", "a", "s">>,
       <<"v", "a", "b">>,
       <<"n", "a", "a", "b">>,
       <<"v", "a", "c">>,
       <<"n", "a", "a", "c">>,
       <<"v", "a", "d">>,
       <<"n", "a", "a", "d">>,
       <<"v", "a", "e">>,
       <<"n", "a", "a", "e">>,
       <<"v", "a", "f">>,
       <<"n", "a", "a", "f">>,
       <<"v", "a", "g">>,
       <<"n", "a", "a", "g">>,
       <<"v", "a", "h">>,
       <<"n", "a", "a", "h">>,
       <<"v", "a", "i">>,
       <<"n", "a", "a", "i">>,
       <<"v", "a", "j">>,
       <<"n", "a", "a", "j">>,
       <<"v", "a", "k">>,
       <<"n", "a", "a", "k">> >>

AllWords(abs) == Split(Join(<<"\n">>, abs))
DistinctWords(abs) == LET ws == AllWords(abs) IN Cardinality({ ws[i] : i \in 1..Len(ws) })

StatsInit ==
    /\ NoRecon
    /\ Environments
    /\ pc = OnlyFirst("building")
    /\ query = [r \in Reqs |-> [orcid |-> WellFormedOrcid, author |-> NoneTok]]
    /\ Idle

\* the corpus gains the word w, in the last abstract or in a new one
Extend(w, fresh) ==
    LET abs == abstracts[1]
        n == Len(abs)
    IN  IF fresh
        THEN /\ abstracts' = [abstracts EXCEPT ![1] = Append(abs, w)]
             /\ titles' = [titles EXCEPT ![1] = Append(@, n + 1)]
             /\ years' = [years EXCEPT ![1] = Append(@, YearOf(n + 1))]
        ELSE /\ abstracts' = [abstracts EXCEPT ![1] = [abs EXCEPT ![n] = @ \o <<" ">> \o w]]
             /\ UNCHANGED <<titles, years>>

\* a new abstract starts when there is none, or when the last one holds one word
FreshChoices(abs) ==
    IF abs = <<>> THEN {TRUE}
    ELSE IF Len(abs) < MaxAbstracts /\ Len(Split(abs[Len(abs)])) = 1 THEN {TRUE, FALSE}
    ELSE {FALSE}

\* the corpus gains the next word of the vocabulary
AddWord ==
    /\ pc[1] = "building"
    /\ DistinctWords(abstracts[1]) < Len(Vocab)
    /\ \E fresh \in FreshChoices(abstracts[1]) :
          Extend(Vocab[DistinctWords(abstracts[1]) + 1], fresh)
    /\ UNCHANGED <<pc, query, calls, author_reply, works_reply, results, mode, resp>>
    /\ UNCHANGED <<recon_vars, nlp_vars>>

\* the corpus gains its last word once more; one word of a corpus repeats
RepeatWord ==
    /\ pc[1] = "building"
    /\ abstracts[1] # <<>>
    /\ \E ws \in { AllWords(abstracts[1]) } :
        \E repeats \in { Len(ws) - DistinctWords(abstracts[1]) } :
          /\ repeats < MaxRepeats
          /\ repeats > 0 => ws[Len(ws)] = ws[Len(ws) - 1]
          /\ Extend(ws[Len(ws)], FALSE)
    /\ UNCHANGED <<pc, query, calls, author_reply, works_reply, results, mode, resp>>
    /\ UNCHANGED <<recon_vars, nlp_vars>>

\* line 207: analyze calls extract_stats(abstracts), the list not empty (line 204)
CallExtractStats ==
    /\ pc[1] = "building"
    /\ abstracts[1] # <<>>
    /\ pc' = [pc EXCEPT ![1] = "get_nlp"]
    /\ UNCHANGED <<query, calls, author_reply, works_reply, results, abstracts, titles, years,
                   mode, resp>>
    /\ UNCHANGED <<recon_vars, nlp_vars>>

StatsNext ==
    \/ AddWord
    \/ RepeatWord
    \/ CallExtractStats
    \/ GetNlpCheck(1)
    \/ GetNlpLoad(1)
    \/ ExtractStats(1)

SpecStats == StatsInit /\ [][StatsNext]_vars

\* ------------------------------------------------ inputs of the reconstructor
\* Tokens OpenAlex indexes carry: words, and artifacts such as "\n" (line 57).
IndexTokens == { <<"a">>, <<"b">>, <<>>, <<"\n">>, <<"a", " ", " ", "b">> }

RECURSIVE AscendingSeq(_)
\* the elements of a finite set of integers, ascending
AscendingSeq(S) ==
    IF S = {} THEN <<>>
    ELSE LET m == CHOOSE x \in S : \A y \in S : x <= y
         IN  <<m>> \o AscendingSeq(S \ {m})

\* position lists: distinct positions, at most two per token
PositionLists ==
    { AscendingSeq(S) : S \in { T \in SUBSET (-1..MaxPos) : Cardinality(T) <= 2 } }

Keys(idx) == { idx[i].token : i \in 1..Len(idx) }

Off ==
    /\ pc = [r \in Reqs |-> "off"]
    /\ query = [r \in Reqs |-> [orcid |-> NoneTok, author |-> NoneTok]]
    /\ Idle

ReconInit ==
    /\ inv_idx = <<>>
    /\ recon_out = Unset
    /\ _NLP = NoneNlp /\ _SPACY_AVAILABLE = FALSE /\ model_installed = FALSE /\ nlp_writes = 0
    /\ Off

\* The upstream JSON object gains one more key.
PutEntry ==
    /\ recon_out = Unset
    /\ Len(inv_idx) < MaxEntries
    /\ \E t \in IndexTokens \ Keys(inv_idx), ps \in PositionLists :
          inv_idx' = Append(inv_idx, [token |-> t, positions |-> ps])
    /\ UNCHANGED <<recon_out, nlp_vars, req_vars>>

Reconstruct ==
    /\ recon_out = Unset
    /\ recon_out' = reconstruct_openalex_abstract(inv_idx)
    /\ UNCHANGED <<inv_idx, nlp_vars, req_vars>>

ReconNext == PutEntry \/ Reconstruct

SpecRecon == ReconInit /\ [][ReconNext]_vars

\* ====================================================================
\* Claims about /analyze and get_nlp (checked under Spec)
\* ====================================================================
Digits == {"0", "1", "2", "3", "4", "5", "6", "7", "8", "9"}

\* four hyphen-separated groups of four digits, the last character a digit or X
OrcidSyntax(s) ==
    /\ Len(s) = 19
    /\ \A i \in {5, 10, 15} : s[i] = "-"
    /\ \A i \in (1..18) \ {5, 10, 15} : s[i] \in Digits
    /\ s[19] \in Digits \cup {"X"}

HasCall(r, api) == \E i \in 1..Len(calls[r]) : calls[r][i].api = api

\* C1: on the ORCID path a value that is not four hyphen-separated groups of four
\* digits (last character a digit or X) is rejected with 400 and no outbound call is
\* made; a well-formed value proceeds to the author lookup.
C1_OrcidValidated ==
    \A r \in Reqs :
        (~Falsy(query[r].orcid) /\ pc[r] \notin {"off", "received"}) =>
            IF OrcidSyntax(query[r].orcid)
            THEN HasCall(r, "authors_by_orcid")
            ELSE calls[r] = <<>> /\ resp[r].status = 400

\* C2: on either identifier path, when the author lookup returns a non-success
\* status the handler responds 502 and the works request is never issued.
C2_LookupFailureIs502 ==
    \A r \in Reqs :
        author_reply[r] \in {"500", "404"} =>
            resp[r].status = 502 /\ ~HasCall(r, "works")

\* C3: a network error or timeout raised by any outbound call ends the request
\* with 502, and the statuses /analyze responds with are exactly 200, 400, 404, 502.
C3_NetworkErrorIs502 ==
    \A r \in Reqs :
        /\ (author_reply[r] = "exception" \/ works_reply[r] = "exception") =>
               resp[r].status = 502
        /\ pc[r] = "done" => resp[r].status \in {200, 400, 404, 502}

\* no work of the reply reconstructs to a non-empty abstract
NoUsableAbstract(res) ==
    \A i \in 1..Len(res) :
        reconstruct_openalex_abstract(res[i].abstract_inverted_index) = <<>>

InAnalyzer(r) == pc[r] \in {"get_nlp", "nlp_load", "nlp_return"} \/ mode[r] # "none"

\* C4: when the author is resolved but no fetched work yields a non-empty
\* reconstructed abstract, the handler responds 404, extract_stats is never invoked
\* and the response carries no statistics and no bibliographic fields.
C4_NoAbstractsIs404 ==
    \A r \in Reqs :
        (works_reply[r] = "200" /\ NoUsableAbstract(results[r])) =>
            /\ pc[r] = "done"
            /\ resp[r] = Fail(404, "No abstracts found for the last works")
            /\ ~InAnalyzer(r)

\* a request whose only work reconstructs to "" has been answered 404
C4_Witness ==
    \E r \in Reqs :
        /\ works_reply[r] = "200"
        /\ results[r] = <<Work(1, IdxBlank)>>
        /\ resp[r].status = 404

\* C8: when spaCy is importable but its model fails to load, extract_stats runs in
\* annotated mode on the reduced pipeline get_nlp returns; fallback mode is entered
\* only when there is no annotation capability at all.
C8_ReducedPipelineAnnotated ==
    \A r \in Reqs :
        /\ (mode[r] # "none" /\ _SPACY_AVAILABLE /\ ~model_installed) =>
               _NLP = BlankPipeline /\ mode[r] = "annotated"
        /\ mode[r] = "fallback" => ~_SPACY_AVAILABLE

\* C9: across any interleaving of concurrent requests, _NLP is assigned at most
\* once in the lifetime of the process.
C9_NlpWrittenOnce == nlp_writes <= 1

IsAuthorCall(c) == c.api \in {"authors_by_orcid", "authors_by_id"}
Failed(r) == resp[r].status \notin {0, 200}

\* the calls of a request so far: nothing, the author lookup, or the author lookup
\* and then, after it succeeded, the works request
CallsInOrder(r) ==
    /\ Len(calls[r]) <= 2
    /\ Len(calls[r]) >= 1 => IsAuthorCall(calls[r][1])
    /\ Len(calls[r]) = 2 => calls[r][2].api = "works" /\ author_reply[r] = "200"
    /\ works_reply[r] # "none" => Len(calls[r]) = 2
    /\ InAnalyzer(r) => works_reply[r] = "200" /\ abstracts[r] # <<>> /\ Len(calls[r]) = 2
    /\ resp[r].status = 200 => mode[r] # "none"

\* a failed request takes no further step
FailedIsAbsorbing ==
    \A r \in Reqs :
        Failed(r) =>
            /\ calls'[r] = calls[r] /\ pc'[r] = pc[r] /\ resp'[r] = resp[r]
            /\ mode'[r] = mode[r] /\ abstracts'[r] = abstracts[r]

\* C10: a request advances validate, resolve author, fetch works, reconstruct,
\* analyze, respond, without retries: at most one author lookup and one works call,
\* the works call only after the lookup succeeded, the analyzer only after the works
\* call succeeded with a non-empty abstract, and nothing more once it has failed.
C10_LinearPipeline ==
    /\ [](\A r \in Reqs : CallsInOrder(r))
    /\ [][FailedIsAbsorbing]_vars

\* one request answered 200 after both calls, another failed at the author lookup
C10_Witness ==
    \E r, q \in Reqs :
        /\ resp[r].status = 200 /\ Len(calls[r]) = 2
        /\ Failed(q) /\ Len(calls[q]) = 1

\* ====================================================================
\* Claims about the works used (checked under SpecWorks)
\* ====================================================================
\* the indexes into a reply of the works used: among the first ten works that carry
\* an abstract index, those whose abstract reconstructs to a non-empty str
UsedIndexes(res) ==
    LET carries(i) == res[i].abstract_inverted_index # <<>>
        rank(i) == Cardinality({ j \in 1..i : carries(j) })
    IN  { i \in 1..Len(res) :
            /\ carries(i)
            /\ rank(i) <= 10
            /\ reconstruct_openalex_abstract(res[i].abstract_inverted_index) # <<>> }

Occurrences(items, t) == Cardinality({ i \in 1..Len(items) : items[i] = t })
TermsOf(items) == { items[i] : i \in 1..Len(items) }
Listed(list, t) == \E i \in 1..Len(list) : list[i].term = t

\* list ranks at most k of the terms of items: counts non-increasing, each the
\* number of occurrences of its term, no unlisted term with a greater count
RanksTopK(list, items, k) ==
    /\ Len(list) <= k
    /\ \A i \in 1..(Len(list) - 1) : list[i].count >= list[i + 1].count
    /\ \A i \in 1..Len(list) : list[i].count = Occurrences(items, list[i].term)
    /\ \A t \in TermsOf(items) :
          ~Listed(list, t) => \A i \in 1..Len(list) : Occurrences(items, t) <= list[i].count

\* the terms extract_stats counts in the mode it took: words, verbs, topics
Countable(r) ==
    LET corpus == Join(<<"\n">>, abstracts[r]) IN
    IF mode[r] = "annotated"
    THEN LET doc == Annotate(_NLP, corpus) IN
         <<WordLemmas(doc), VerbLemmas(_NLP, doc), TopicChunks(_NLP, doc)>>
    ELSE <<FallbackWords(corpus), <<>>, <<>>>>

\* C6: in either mode top_words has at most 15 entries (exactly 15 when at least 15
\* distinct countable terms exist), top_verbs at most 10 and topics at most 10; in
\* each list counts are non-increasing, every listed count is the number of
\* occurrences of its term, and no unlisted term has a count greater than a listed one.
C6_TopK ==
    \A r \in Reqs :
        resp[r].status = 200 =>
            \A items \in { Countable(r) } :
                /\ RanksTopK(resp[r].top_words, items[1], 15)
                /\ Cardinality(TermsOf(items[1])) >= 15 => Len(resp[r].top_words) = 15
                /\ RanksTopK(resp[r].top_verbs, items[2], 10)
                /\ RanksTopK(resp[r].topics, items[3], 10)

\* an annotated corpus of more than 15 distinct words, more than 10 verbs and more
\* than 10 topics, whose last word, first seen after all the others, occurs twice
\* and is ranked third, behind the two lemmas that occur twice and were seen before
C6_Witness ==
    /\ resp[1].status = 200
    /\ mode[1] = "annotated"
    /\ Len(resp[1].top_words) = 15 /\ Len(resp[1].top_verbs) = 10 /\ Len(resp[1].topics) = 10
    /\ resp[1].top_words[3] = [term |-> Vocab[Len(Vocab)], count |-> 2]
    /\ \E items \in { Countable(1) } :
          /\ Cardinality(TermsOf(items[1])) > 15
          /\ Cardinality(TermsOf(items[2])) > 10
          /\ Cardinality(TermsOf(items[3])) > 10

\* ====================================================================
\* Claims about reconstruct_openalex_abstract (checked under SpecRecon)
\* ====================================================================
Occupied(idx) == UNION { { idx[i].positions[k] : k \in 1..Len(idx[i].positions) } : i \in 1..Len(idx) }

PositionsOf(e) == { e.positions[k] : k \in 1..Len(e.positions) }

\* the tokens map to pairwise-disjoint sets of non-negative positions
DisjointNonNegative(idx) ==
    /\ \A i \in 1..Len(idx) : \A p \in PositionsOf(idx[i]) : p >= 0
    /\ \A i, j \in 1..Len(idx) : i # j => PositionsOf(idx[i]) \cap PositionsOf(idx[j]) = {}

TokenAt(idx, p) == idx[CHOOSE i \in 1..Len(idx) : p \in PositionsOf(idx[i])].token

\* the tokens of idx, one per occupied position, in ascending position order
InPositionOrder(idx) ==
    LET ps == AscendingSeq(Occupied(idx))
    IN  [k \in 1..Len(ps) |-> TokenAt(idx, ps[k])]

\* every token is a non-empty str without whitespace
PlainTokens(idx) ==
    \A i \in 1..Len(idx) :
        /\ idx[i].token # <<>>
        /\ \A k \in 1..Len(idx[i].token) : ~IsSpace(idx[i].token[k])

\* C5 as stated: for any inverted index whose tokens map to pairwise-disjoint sets
\* of non-negative positions, the output is the tokens in ascending position order
\* joined by single spaces, unoccupied positions skipped; an empty index yields "".
C5_AsStated ==
    recon_out # Unset =>
        /\ inv_idx = <<>> => recon_out = <<>>
        /\ DisjointNonNegative(inv_idx) =>
               recon_out = Join(<<" ">>, InPositionOrder(inv_idx))

\* C5 amended: the same, for indexes whose tokens are non-empty and free of
\* whitespace (the reconstructor drops empty tokens and normalises whitespace
\* inside tokens, so other tokens do not come out as they went in).
C5_Reconstruct ==
    recon_out # Unset =>
        /\ inv_idx = <<>> => recon_out = <<>>
        /\ (DisjointNonNegative(inv_idx) /\ PlainTokens(inv_idx)) =>
               recon_out = Join(<<" ">>, InPositionOrder(inv_idx))

\* the gap example of the spec: {"b": [2], "a": [0]} has been reconstructed to "a b"
C5_Witness ==
    /\ inv_idx = << [token |-> <<"b">>, positions |-> <<2>>],
                    [token |-> <<"a">>, positions |-> <<0>>] >>
    /\ recon_out = <<"a", " ", "b">>

====
